---- MODULE Spec2Model ----
(***************************************************************************)
(* A model of scrapper.py: configuration validation, the crawler's bounded *)
(* link collection, the sequential article loop of the main run, and the   *)
(* two text heuristics of HTMLParser (bibliography split, page range).     *)
(*                                                                         *)
(* Strings are sequences of characters.  URLs are sequences of lexical     *)
(* units (scheme, host, path segment) so that re.search and the prefixing  *)
(* of HTTP_PATTERN are computed, not assumed.                              *)
(***************************************************************************)
EXTENDS Integers, Sequences, FiniteSets, TLC

VARIABLES
    config,         \* the parsed configuration document (json.load)
    pc,             \* position of the main run / of the function under study
    error,          \* the exception that ended the run, "none" otherwise
    assets_reset,   \* number of times prepare_environment reset ASSETS_PATH
    http_requests,  \* number of HTTP GET requests issued so far
    seed_urls,      \* Crawler.seed_urls
    max_articles,   \* Crawler.max_articles (a JSON value: int or bool)
    urls,           \* Crawler.urls
    seed_idx,       \* position of find_articles' loop in seed_urls (1-based)
    article_bs,     \* the cells found on the seed page being extracted
    cell_idx,       \* position of _extract_url's loop in article_bs (1-based)
    responses,      \* log of the responses received for seed requests
    id_of_article,  \* enumerate index of the article loop (0-based)
    article,        \* the Article being filled / about to be saved
    saved,          \* log of save_raw calls (the persisted records)
    arg,            \* argument of the function under study (function specs)
    ret             \* its result

vars == <<config, pc, error, assets_reset, http_requests, seed_urls,
          max_articles, urls, seed_idx, article_bs, cell_idx, responses,
          id_of_article, article, saved, arg, ret>>

crawlVars == <<seed_urls, max_articles, urls, seed_idx, article_bs, cell_idx,
               responses>>

(***************************************************************************)
(* Bounds of the model.                                                    *)
(***************************************************************************)
MaxSeeds == 2       \* longest seed list / mapping enumerated by SpecValidate
MaxUrlLen == 3      \* longest seed string (in lexical units)
MaxCells == 2       \* most link cells on one seed page
MaxTextLen == 7     \* longest extracted PDF text (in characters)
MaxPagesLen == 5    \* longest page-range string (in characters)

SeqsUpTo(S, n) == UNION {[1..k -> S] : k \in 0..n}

(***************************************************************************)
(* JSON values as json.load produces them, tagged with their Python type.  *)
(***************************************************************************)
JNull == [kind |-> "null", val |-> 0]
JInt(n) == [kind |-> "int", val |-> n]
JBool(b) == [kind |-> "bool", val |-> b]
JFloat(tenths) == [kind |-> "float", val |-> tenths]
JStr(s) == [kind |-> "str", val |-> s]
JList(items) == [kind |-> "list", val |-> items]
JDict(keys) == [kind |-> "dict", val |-> keys]
\* a key that the configuration mapping does not hold
Absent == [kind |-> "absent", val |-> 0]

\* isinstance(v, int): bool is a subclass of int
IsInstanceInt(v) == v.kind \in {"int", "bool"}

\* the number a Python int (or bool) compares as
IntValue(v) == IF v.kind = "bool" THEN (IF v.val THEN 1 ELSE 0) ELSE v.val


\* the values a `for` loop over v yields, in order
IterItems(v) ==
    IF v.kind = "list" THEN v.val
    ELSE IF v.kind = "dict" THEN [i \in 1..Len(v.val) |-> JStr(v.val[i])]
    ELSE [i \in 1..Len(v.val) |-> JStr(<<v.val[i]>>)]

(***************************************************************************)
(* HTTP_PATTERN is imported from constants; the model fixes it to a scheme *)
(* followed by a host.                                                     *)
(***************************************************************************)
HTTP_PATTERN == <<"https://", "host">>

\* re.compile(p).search(s): p occurs anywhere in s
Search(p, s) ==
    \E i \in 0..(Len(s) - Len(p)) : SubSeq(s, i + 1, i + Len(p)) = p

\* the loop of lines 148-151: the first entry that stops it decides
RECURSIVE CheckUrls(_, _)
CheckUrls(items, i) ==
    IF i > Len(items) THEN "none"
    ELSE IF items[i].kind # "str" THEN "TypeError"
    ELSE IF ~Search(HTTP_PATTERN, items[i].val) THEN "IncorrectURLError"
    ELSE CheckUrls(items, i + 1)

MaxTotal == 200

\* line 156, `not seed_urls`, with the emptiness check dropped
NeverEmpty(v) == FALSE

\* line 156: `not seed_urls`, for the containers that reach it
IsEmpty(v) == Len(v.val) = 0

\* line 162 with < for <=
NotPositiveStrict(t) == IntValue(t) < 0

\* line 162: total_articles_to_find_and_parse <= 0
NotPositive(t) == IntValue(t) <= 0

\* line 164 with the range check dropped
NeverTooMany(t) == FALSE

\* line 164: total_articles_to_find_and_parse > 200
TooMany(t) == IntValue(t) > MaxTotal

Raise(exc) == [exc |-> exc, seed_urls |-> JNull, total |-> JNull]

Return(s, t) == [exc |-> "none", seed_urls |-> s, total |-> t]

validate_config(configuration) ==
    LET s == configuration.seed_urls
        t == configuration.total_articles_to_find_and_parse
    IN  IF s = Absent THEN Raise("IncorrectURLError")
        ELSE IF t = Absent THEN Raise("IncorrectNumberOfArticlesError")
        ELSE IF s.kind \notin {"list", "dict", "str"} THEN Raise("TypeError")
        ELSE IF CheckUrls(IterItems(s), 1) # "none"
            THEN Raise(CheckUrls(IterItems(s), 1))
        ELSE IF IsEmpty(s) THEN Raise("IncorrectURLError")
        ELSE IF ~IsInstanceInt(t) THEN Raise("IncorrectNumberOfArticlesError")
        ELSE IF s.kind # "list" THEN Raise("IncorrectURLError")
        ELSE IF NotPositive(t) THEN Raise("IncorrectNumberOfArticlesError")
        ELSE IF TooMany(t) THEN Raise("NumberOfArticlesOutOfRangeError")
        ELSE Return(s, t)

(***************************************************************************)
(* Configurations.                                                         *)
(***************************************************************************)
UrlUnits == {"https://", "host"}

UrlStrings == SeqsUpTo(UrlUnits, MaxUrlLen)

\* entries of a seed list: strings, and one value that is not a string
SeedEntries == {JStr(s) : s \in UrlStrings} \cup {JInt(5)}

SeedValues ==
    {Absent, JNull, JInt(5)}
    \cup {JStr(s) : s \in UrlStrings}
    \cup {JList(l) : l \in SeqsUpTo(SeedEntries, MaxSeeds)}
    \cup {JDict(d) : d \in {k \in SeqsUpTo(UrlStrings, MaxSeeds) :
                               \A i, j \in 1..Len(k) : k[i] = k[j] => i = j}}

TotalValues ==
    {Absent, JNull, JStr(<<"3">>), JFloat(35), JBool(TRUE), JBool(FALSE)}
    \cup {JInt(n) : n \in {-5, -1, 0, 1, 2, 3, 200, 201, 1000}}

Config(s, t) == [seed_urls |-> s, total_articles_to_find_and_parse |-> t]

NoCall == "none"

\* the value of ret before the call returned
NoReturn == [exc |-> "pending", seed_urls |-> JNull, total |-> JNull]

Returned == ret.exc # "pending"

IdleMain ==
    /\ error = "none"
    /\ assets_reset = 0
    /\ http_requests = 0
    /\ seed_urls = <<>>
    /\ max_articles = JNull
    /\ urls = <<>>
    /\ seed_idx = 0
    /\ article_bs = <<>>
    /\ cell_idx = 0
    /\ responses = <<>>
    /\ id_of_article = 0
    /\ article = JNull
    /\ saved = <<>>

mainVars == <<error, assets_reset, http_requests, seed_urls, max_articles,
              urls, seed_idx, article_bs, cell_idx, responses, id_of_article,
              article, saved>>

(***************************************************************************)
(* validate_config as a function: every configuration, one call.           *)
(***************************************************************************)
InitValidate ==
    /\ \E s \in SeedValues, t \in TotalValues : config = Config(s, t)
    /\ pc = "call"
    /\ arg = NoCall
    /\ ret = NoReturn
    /\ IdleMain

CallValidate ==
    /\ pc = "call"
    /\ ret' = validate_config(config)
    /\ pc' = "returned"
    /\ UNCHANGED <<config, arg, mainVars>>

NextValidate == CallValidate

SpecValidate == InitValidate /\ [][NextValidate]_vars

(***************************************************************************)
(* String helpers shared by the two text heuristics.                       *)
(***************************************************************************)
Digits == {"0", "1", "2", "3", "4", "5", "6", "7", "8", "9"}

DigitVal(c) ==
    CASE c = "0" -> 0 [] c = "1" -> 1 [] c = "2" -> 2 [] c = "3" -> 3
      [] c = "4" -> 4 [] c = "5" -> 5 [] c = "6" -> 6 [] c = "7" -> 7
      [] c = "8" -> 8 [] c = "9" -> 9

\* int(s) succeeds (within the alphabet of the model: no sign, no blanks)
IsNumeric(s) == Len(s) > 0 /\ \A i \in 1..Len(s) : s[i] \in Digits

\* int(s) for a string of decimal digits
RECURSIVE ToInt(_)
ToInt(s) ==
    IF Len(s) = 0 THEN 0
    ELSE 10 * ToInt(SubSeq(s, 1, Len(s) - 1)) + DigitVal(s[Len(s)])

\* s.find(sep) + 1: the position of the first occurrence, 0 when there is none
FirstIndex(s, sep) ==
    LET hits == {i \in 1..(Len(s) - Len(sep) + 1) :
                    SubSeq(s, i, i + Len(sep) - 1) = sep}
    IN  IF hits = {} THEN 0
        ELSE CHOOSE i \in hits : \A j \in hits : i <= j

\* sep in s
Contains(s, sep) == FirstIndex(s, sep) > 0

\* s.split(sep): split at every occurrence, left to right
RECURSIVE Split(_, _)
Split(s, sep) ==
    LET i == FirstIndex(s, sep)
    IN  IF i = 0 THEN <<s>>
        ELSE <<SubSeq(s, 1, i - 1)>>
                 \o Split(SubSeq(s, i + Len(sep), Len(s)), sep)

(***************************************************************************)
(* HTMLParser._fill_article_with_text: the bibliography heuristic.         *)
(* "L" stands for the heading word; the marker is the word and a newline.  *)
(***************************************************************************)
Marker == <<"L", "\n">>

\* ^ under re.MULTILINE: the start of the string and after every newline
IsLineStart(r, p) == p = 1 \/ r[p - 1] = "\n"

\* the text \d{1,2}[\.] matches at position p, <<>> when it does not match
MatchAt(r, p) ==
    IF p + 2 <= Len(r) /\ r[p] \in Digits /\ r[p + 1] \in Digits
           /\ r[p + 2] = "."
        THEN SubSeq(r, p, p + 2)
    ELSE IF p + 1 <= Len(r) /\ r[p] \in Digits /\ r[p + 1] = "."
        THEN SubSeq(r, p, p + 1)
    ELSE <<>>

\* re.findall(r'^\d{1,2}[\.]', r, flags=re.MULTILINE), scanning from p
RECURSIVE FindAll(_, _)
FindAll(r, p) ==
    IF p > Len(r) THEN <<>>
    ELSE IF IsLineStart(r, p) /\ MatchAt(r, p) # <<>>
        THEN <<MatchAt(r, p)>> \o FindAll(r, p + 1)
    ELSE FindAll(r, p + 1)

\* line 90 with the first match taken for the last
FirstSource(region) ==
    LET liter_lst == FindAll(region, 1)
    IN  IF liter_lst # <<>>
        THEN ToInt(Split(liter_lst[1], <<".">>)[1])
        ELSE 0

\* the number the function reports for a scan region
LastSource(region) ==
    LET liter_lst == FindAll(region, 1)
    IN  IF liter_lst # <<>>
        THEN ToInt(Split(liter_lst[Len(liter_lst)], <<".">>)[1])
        ELSE 0

\* the region the function scans: text_lst[1]
ScanRegion(full_text) == Split(full_text, Marker)[2]

fill_article_with_text(full_text) ==
    IF Contains(full_text, Marker)
    THEN [text |-> Split(full_text, Marker)[1],
          sources |-> LastSource(ScanRegion(full_text))]
    ELSE [text |-> full_text, sources |-> 0]

(***************************************************************************)
(* HTMLParser._fill_article_with_meta_information, lines 110-112: the page *)
(* count derived from the page-range string.                               *)
(***************************************************************************)
lst_with_pages(node_pages) ==
    LET parts == Split(node_pages, <<"-">>)
    IN  IF \E i \in 1..Len(parts) : ~IsNumeric(parts[i])
        THEN [exc |-> "ValueError", lst |-> <<>>]
        ELSE [exc |-> "none", lst |-> [i \in 1..Len(parts) |-> ToInt(parts[i])]]

number_of_pages(node_pages) ==
    LET r == lst_with_pages(node_pages)
    IN  IF r.exc # "none" THEN [exc |-> r.exc, pages |-> 0]
        ELSE IF Len(r.lst) < 2 THEN [exc |-> "IndexError", pages |-> 0]
        ELSE [exc |-> "none", pages |-> r.lst[2] - r.lst[1] + 1]

(***************************************************************************)
(* The two heuristics as functions: every bounded input, one call.         *)
(***************************************************************************)
TextChars == {"L", "\n", "1", "2", "."}

Texts == SeqsUpTo(TextChars, MaxTextLen)

InitText ==
    /\ arg \in Texts
    /\ ret = NoReturn
    /\ pc = "call"
    /\ config = Config(Absent, Absent)
    /\ IdleMain

CallFillText ==
    /\ pc = "call"
    /\ ret' = fill_article_with_text(arg)
    /\ pc' = "returned"
    /\ UNCHANGED <<config, arg, mainVars>>

NextText == CallFillText

SpecText == InitText /\ [][NextText]_vars

PageChars == {"1", "2", "-", "x"}

PageRanges ==
    SeqsUpTo(PageChars, MaxPagesLen)
        \cup {<<"1", "2", "3", "-", "1", "4", "5">>, <<"1", "2", "3">>}

InitPages ==
    /\ arg \in PageRanges
    /\ ret = NoReturn
    /\ pc = "call"
    /\ config = Config(Absent, Absent)
    /\ IdleMain

CallNumberOfPages ==
    /\ pc = "call"
    /\ ret' = number_of_pages(arg)
    /\ pc' = "returned"
    /\ UNCHANGED <<config, arg, mainVars>>

NextPages == CallNumberOfPages

SpecPages == InitPages /\ [][NextPages]_vars

(***************************************************************************)
(* The main run (lines 170-183).  The sleeps of lines 60 and 179 change no *)
(* state and have no action of their own.                                  *)
(***************************************************************************)
Good1 == JStr(HTTP_PATTERN)

Good2 == JStr(HTTP_PATTERN \o <<"host">>)

Bad == JStr(<<"host">>)

MainSeedValues ==
    {Absent, JNull, JInt(5), JStr(HTTP_PATTERN), JDict(<<>>),
     JDict(<<HTTP_PATTERN>>), JList(<<>>), JList(<<Bad>>),
     JList(<<JInt(5)>>), JList(<<Good1, JInt(5)>>), JList(<<Good1, Bad>>),
     JList(<<Good1>>), JList(<<Good1, Good2>>)}

MainTotalValues ==
    {Absent, JNull, JStr(<<"3">>), JFloat(35), JBool(FALSE), JInt(-5),
     JInt(0), JInt(201), JInt(1000),
     JBool(TRUE), JInt(2), JInt(3), JInt(200)}

MainConfigs == {Config(s, t) : s \in MainSeedValues, t \in MainTotalValues}

\* the cells find_all returns for a seed page (line 48)
Hrefs == {<<"/a">>, <<"/b">>}

Cells == {[anchor |-> TRUE, href |-> h] : h \in Hrefs}
             \cup {[anchor |-> FALSE, href |-> <<>>]}

Pages == SeqsUpTo(Cells, MaxCells)

\* what requests.get(seed_url) can do: raise, or return a response
SeedResponses ==
    {[status |-> "raise", cells |-> <<>>]}
    \cup {[status |-> st, cells |-> c] : st \in {"ok", "not_ok"}, c \in Pages}

\* what an article URL can serve
SampleTexts == {<<"1", ".">>, <<"2", "L", "\n", "1", ".">>}

SamplePageRanges == {<<"1", "-", "2">>, <<"1", "2">>, <<"x", "-", "1">>}

ArticlePages ==
    [fetch : {"ok", "raise"}, iframe : BOOLEAN, full_text : SampleTexts,
     node_pages : SamplePageRanges]

Init ==
    /\ config \in MainConfigs
    /\ pc = "validate"
    /\ arg = NoCall
    /\ ret = NoReturn
    /\ IdleMain

Abort(exc) ==
    /\ pc' = "aborted"
    /\ error' = exc

\* line 171, the call raises
MainValidateRaises ==
    /\ pc = "validate"
    /\ validate_config(config).exc # "none"
    /\ Abort(validate_config(config).exc)
    /\ UNCHANGED <<config, assets_reset, http_requests, crawlVars,
                   id_of_article, article, saved, arg, ret>>

\* line 171, the call returns (main_seed_urls, main_max_articles)
MainValidateReturns ==
    /\ pc = "validate"
    /\ validate_config(config).exc = "none"
    /\ ret' = validate_config(config)
    /\ pc' = "prepare"
    /\ UNCHANGED <<config, error, assets_reset, http_requests, crawlVars,
                   id_of_article, article, saved, arg>>

\* line 172
prepare_environment ==
    /\ pc = "prepare"
    /\ assets_reset' = assets_reset + 1
    /\ pc' = "crawler"
    /\ UNCHANGED <<config, error, http_requests, crawlVars, id_of_article,
                   article, saved, arg, ret>>

\* line 174: Crawler.__init__
NewCrawler ==
    /\ pc = "crawler"
    /\ seed_urls' = [i \in 1..Len(ret.seed_urls.val) |-> ret.seed_urls.val[i].val]
    /\ max_articles' = ret.total
    /\ urls' = <<>>
    /\ seed_idx' = 1
    /\ pc' = "find_articles"
    /\ UNCHANGED <<config, error, assets_reset, http_requests, article_bs,
                   cell_idx, responses, id_of_article, article, saved, arg,
                   ret>>

Logged(resp) ==
    Append(responses, [url |-> seed_urls[seed_idx], status |-> resp.status,
                       cells |-> resp.cells])

\* line 61 raises (no connection): nothing in the run catches it
FindArticlesGetRaises ==
    /\ pc = "find_articles"
    /\ seed_idx <= Len(seed_urls)
    /\ http_requests' = http_requests + 1
    /\ responses' = Logged([status |-> "raise", cells |-> <<>>])
    /\ Abort("RequestException")
    /\ UNCHANGED <<config, assets_reset, seed_urls, max_articles, urls,
                   seed_idx, article_bs, cell_idx, id_of_article, article,
                   saved, arg, ret>>

\* lines 62-63 with break for continue
SkipSeedBreak ==
    /\ seed_idx' = Len(seed_urls) + 1
    /\ UNCHANGED <<pc, error, urls, article_bs, cell_idx>>

\* what lines 62-63 do with a response that is not ok
SkipSeed ==
    /\ seed_idx' = seed_idx + 1
    /\ UNCHANGED <<pc, error, urls, article_bs, cell_idx>>

\* lines 61-63: the response is not ok
FindArticlesNotOk ==
    /\ pc = "find_articles"
    /\ seed_idx <= Len(seed_urls)
    /\ \E resp \in SeedResponses :
        /\ resp.status = "not_ok"
        /\ responses' = Logged(resp)
    /\ http_requests' = http_requests + 1
    /\ SkipSeed
    /\ UNCHANGED <<config, assets_reset, seed_urls, max_articles,
                   id_of_article, article, saved, arg, ret>>

\* lines 61-65 and 48: the response is ok, _extract_url starts on its cells
FindArticlesOk ==
    /\ pc = "find_articles"
    /\ seed_idx <= Len(seed_urls)
    /\ \E resp \in SeedResponses :
        /\ resp.status = "ok"
        /\ responses' = Logged(resp)
        /\ article_bs' = resp.cells
    /\ http_requests' = http_requests + 1
    /\ cell_idx' = 1
    /\ pc' = "extract_url"
    /\ UNCHANGED <<config, error, assets_reset, seed_urls, max_articles, urls,
                   seed_idx, id_of_article, article, saved, arg, ret>>

\* line 50: the cell holds no anchor, None['href'] raises
ExtractUrlNoAnchor ==
    /\ pc = "extract_url"
    /\ cell_idx <= Len(article_bs)
    /\ ~article_bs[cell_idx].anchor
    /\ Abort("TypeError")
    /\ UNCHANGED <<config, assets_reset, http_requests, crawlVars,
                   id_of_article, article, saved, arg, ret>>

\* line 51 with > for >=
LimitReachedOffByOne == Len(urls) > IntValue(max_articles)

\* line 51: the guard of the break
LimitReached == Len(urls) >= IntValue(max_articles)

\* line 53 with the new URL put in front
AppendUrlFront(url) == urls' = <<HTTP_PATTERN \o url>> \o urls

\* line 53
AppendUrl(url) == urls' = Append(urls, HTTP_PATTERN \o url)

\* lines 51-52: break, _extract_url returns, the seed loop goes on
ExtractUrlBreak ==
    /\ pc = "extract_url"
    /\ cell_idx <= Len(article_bs)
    /\ article_bs[cell_idx].anchor
    /\ LimitReached
    /\ seed_idx' = seed_idx + 1
    /\ pc' = "find_articles"
    /\ UNCHANGED <<config, error, assets_reset, http_requests, seed_urls,
                   max_articles, urls, article_bs, cell_idx, responses,
                   id_of_article, article, saved, arg, ret>>

\* line 53
ExtractUrlAppend ==
    /\ pc = "extract_url"
    /\ cell_idx <= Len(article_bs)
    /\ article_bs[cell_idx].anchor
    /\ ~LimitReached
    /\ AppendUrl(article_bs[cell_idx].href)
    /\ cell_idx' = cell_idx + 1
    /\ UNCHANGED <<config, pc, error, assets_reset, http_requests, seed_urls,
                   max_articles, seed_idx, article_bs, responses,
                   id_of_article, article, saved, arg, ret>>

\* line 49: the cells are exhausted, _extract_url returns
ExtractUrlReturn ==
    /\ pc = "extract_url"
    /\ cell_idx > Len(article_bs)
    /\ seed_idx' = seed_idx + 1
    /\ pc' = "find_articles"
    /\ UNCHANGED <<config, error, assets_reset, http_requests, seed_urls,
                   max_articles, urls, article_bs, cell_idx, responses,
                   id_of_article, article, saved, arg, ret>>

\* line 59: the seeds are exhausted, find_articles returns to line 177
FindArticlesReturn ==
    /\ pc = "find_articles"
    /\ seed_idx > Len(seed_urls)
    /\ id_of_article' = 0
    /\ pc' = "articles"
    /\ UNCHANGED <<config, error, assets_reset, http_requests, crawlVars,
                   article, saved, arg, ret>>

\* HTMLParser.parse (lines 117-122): the exception it ends with, if any
ParseOutcome(page) ==
    IF page.fetch = "raise" THEN "RequestException"
    ELSE IF ~page.iframe THEN "TypeError"
    ELSE number_of_pages(page.node_pages).exc

\* line 178 without the + 1
ArticleIdZeroBased(i) == i

\* line 178: the identifier given to the parser
ArticleId(i) == i + 1

\* lines 178-180, parse raises: the run ends
ParseRaises ==
    /\ pc = "articles"
    /\ id_of_article < Len(urls)
    /\ \E page \in ArticlePages :
        /\ ParseOutcome(page) # "none"
        /\ Abort(ParseOutcome(page))
    /\ http_requests' = http_requests + 1
    /\ UNCHANGED <<config, assets_reset, crawlVars, id_of_article, article,
                   saved, arg, ret>>

\* lines 178-180, parse returns the filled article
ParseReturns ==
    /\ pc = "articles"
    /\ id_of_article < Len(urls)
    /\ \E page \in ArticlePages :
        /\ ParseOutcome(page) = "none"
        /\ article' = [article_id |-> ArticleId(id_of_article),
                       url |-> urls[id_of_article + 1],
                       text |-> fill_article_with_text(page.full_text).text]
    /\ http_requests' = http_requests + 1
    /\ pc' = "save_raw"
    /\ UNCHANGED <<config, error, assets_reset, crawlVars, id_of_article,
                   saved, arg, ret>>

\* what the loop does after save_raw returned (line 182 and the next round)
NextArticle ==
    /\ id_of_article' = id_of_article + 1
    /\ pc' = "articles"

\* lines 181-182
SaveRaw ==
    /\ pc = "save_raw"
    /\ saved' = Append(saved, [article |-> article, written |-> TRUE])
    /\ NextArticle
    /\ UNCHANGED <<config, error, assets_reset, http_requests, crawlVars,
                   article, arg, ret>>

\* line 181, the write fails: the exception ends the run
SaveRawRaises ==
    /\ pc = "save_raw"
    /\ saved' = Append(saved, [article |-> article, written |-> FALSE])
    /\ Abort("OSError")
    /\ UNCHANGED <<config, assets_reset, http_requests, crawlVars,
                   id_of_article, article, arg, ret>>

\* line 183
Done ==
    /\ pc = "articles"
    /\ id_of_article >= Len(urls)
    /\ pc' = "done"
    /\ UNCHANGED <<config, error, assets_reset, http_requests, crawlVars,
                   id_of_article, article, saved, arg, ret>>

Next ==
    \/ MainValidateRaises
    \/ MainValidateReturns
    \/ prepare_environment
    \/ NewCrawler
    \/ FindArticlesGetRaises
    \/ FindArticlesNotOk
    \/ FindArticlesOk
    \/ ExtractUrlNoAnchor
    \/ ExtractUrlBreak
    \/ ExtractUrlAppend
    \/ ExtractUrlReturn
    \/ FindArticlesReturn
    \/ ParseRaises
    \/ ParseReturns
    \/ SaveRaw
    \/ SaveRawRaises
    \/ Done

Spec == Init /\ [][Next]_vars

(***************************************************************************)
(* Properties.                                                             *)
(***************************************************************************)
Min(a, b) == IF a <= b THEN a ELSE b

Take(q, n) == SubSeq(q, 1, n)

\* the crawler exists and find_articles has started
CrawlerLive == pc \in {"find_articles", "extract_url", "articles", "save_raw",
                       "done"} \/ (pc = "aborted" /\ seed_idx > 0)

\* find_articles has returned
FindArticlesFinished == seed_idx > Len(seed_urls) /\ seed_idx > 0

\* C1: while and after find_articles runs, Crawler.urls never holds more
\* than max_articles entries, and once it holds max_articles entries it
\* never changes again.
C1_UrlsBounded ==
    /\ [](CrawlerLive => Len(urls) <= IntValue(max_articles))
    /\ [][(CrawlerLive /\ Len(urls) = IntValue(max_articles))
              => urls' = urls]_vars

\* the limit is reached in the middle of a page: the next cell meets the break
C1_Witness ==
    /\ pc = "extract_url"
    /\ cell_idx > 1
    /\ cell_idx <= Len(article_bs)
    /\ article_bs[cell_idx].anchor
    /\ Len(urls) = IntValue(max_articles)

\* the links of one page, in page order, as absolute URLs
RECURSIVE PageLinks(_)
PageLinks(cells) ==
    IF cells = <<>> THEN <<>>
    ELSE (IF Head(cells).anchor THEN <<HTTP_PATTERN \o Head(cells).href>>
          ELSE <<>>) \o PageLinks(Tail(cells))

\* the candidate links of the successful seeds, in seed order
RECURSIVE Candidates(_)
Candidates(log) ==
    IF log = <<>> THEN <<>>
    ELSE (IF Head(log).status = "ok" THEN PageLinks(Head(log).cells)
          ELSE <<>>) \o Candidates(Tail(log))

\* C2: when find_articles has finished, Crawler.urls is the first
\* min(|C|, N) candidate links of the successful seeds, in order.
C2_FirstCandidates ==
    FindArticlesFinished =>
        urls = Take(Candidates(responses),
                    Min(Len(Candidates(responses)), IntValue(max_articles)))

\* two successful seeds, limit 3, two links each: the run stops mid-seed-2
C2_Witness ==
    /\ pc = "articles"
    /\ IntValue(max_articles) = 3
    /\ Len(responses) = 2
    /\ responses[1].status = "ok" /\ Len(responses[1].cells) = 2
    /\ responses[2].status = "ok" /\ Len(responses[2].cells) = 2
    /\ Len(Candidates(responses)) = 4
    /\ Len(urls) = 3
    /\ urls[1] # urls[2]

ConfigErrors == {"IncorrectURLError", "IncorrectNumberOfArticlesError",
                 "NumberOfArticlesOutOfRangeError"}

\* a non-empty list whose every entry is a string the pattern matches
ValidSeedList(s) ==
    /\ s.kind = "list"
    /\ Len(s.val) > 0
    /\ \A i \in 1..Len(s.val) :
        s.val[i].kind = "str" /\ Search(HTTP_PATTERN, s.val[i].val)

\* C3: the assets directory is reset and requests are issued only after
\* validate_config returned; what it returns is an integer limit in (0, 200]
\* and a non-empty list of matching seed URLs; a run that validation ended
\* with a configuration error resets nothing and requests nothing.
C3_ValidatedBeforeEffects ==
    /\ (assets_reset > 0 \/ http_requests > 0) => Returned
    /\ Returned =>
        /\ ret.exc = "none"
        /\ IsInstanceInt(ret.total)
        /\ 0 < IntValue(ret.total) /\ IntValue(ret.total) <= 200
        /\ ValidSeedList(ret.seed_urls)
    /\ (pc = "aborted" /\ ~Returned) =>
        /\ assets_reset = 0
        /\ http_requests = 0
    /\ error \in ConfigErrors => ~Returned

\* a validated run that reset the directory and went on to the network
C3_Witness ==
    /\ pc = "done"
    /\ assets_reset = 1
    /\ http_requests > 2
    /\ IntValue(max_articles) = 200

\* the counts the claim names as incorrect
IncorrectCount(t) ==
    \/ t = Absent
    \/ t.kind = "int" /\ t.val <= 0
    \/ t.kind = "str"
    \/ t.kind = "float"

OutOfRangeCount(t) == t.kind = "int" /\ t.val > 200

\* the seed field is a list of strings (iterating and matching it raises no
\* TypeError)
ListOfStrings(s) ==
    s.kind = "list" /\ \A i \in 1..Len(s.val) : s.val[i].kind = "str"

\* C4 as stated: an incorrect count gives IncorrectNumberOfArticlesError and
\* a count above 200 gives NumberOfArticlesOutOfRangeError, whatever the
\* seed list is (read here on the configurations whose seed field is a
\* list of strings).
C4_AsStated ==
    (pc = "returned" /\ ListOfStrings(config.seed_urls)) =>
        /\ IncorrectCount(config.total_articles_to_find_and_parse)
              => ret.exc = "IncorrectNumberOfArticlesError"
        /\ OutOfRangeCount(config.total_articles_to_find_and_parse)
              => ret.exc = "NumberOfArticlesOutOfRangeError"

\* C4 amended: the same, for the configurations whose seed list is a
\* non-empty list of strings that all match the pattern.
C4_CountErrors ==
    (pc = "returned" /\ ValidSeedList(config.seed_urls)) =>
        /\ IncorrectCount(config.total_articles_to_find_and_parse)
              => ret.exc = "IncorrectNumberOfArticlesError"
        /\ OutOfRangeCount(config.total_articles_to_find_and_parse)
              => ret.exc = "NumberOfArticlesOutOfRangeError"

\* a valid two-seed list with the count 0
C4_Witness ==
    /\ pc = "returned"
    /\ ValidSeedList(config.seed_urls)
    /\ Len(config.seed_urls.val) = 2
    /\ config.total_articles_to_find_and_parse = JInt(0)
    /\ ret.exc = "IncorrectNumberOfArticlesError"

\* C5 as stated: an empty seed list gives IncorrectURLError whatever the
\* count field is, absent included.
C5_AsStated ==
    (pc = "returned" /\ config.seed_urls = JList(<<>>))
        => ret.exc = "IncorrectURLError"

\* C5 amended: an empty seed list gives IncorrectURLError whenever the
\* count field is present, whatever its value, and
\* IncorrectNumberOfArticlesError when the count field is absent.
C5_EmptySeedList ==
    (pc = "returned" /\ config.seed_urls = JList(<<>>)) =>
        IF config.total_articles_to_find_and_parse # Absent
        THEN ret.exc = "IncorrectURLError"
        ELSE ret.exc = "IncorrectNumberOfArticlesError"

\* an empty seed list with a count that is valid
C5_Witness ==
    /\ pc = "returned"
    /\ config.seed_urls = JList(<<>>)
    /\ config.total_articles_to_find_and_parse = JInt(3)
    /\ ret.exc = "IncorrectURLError"

\* the seed field is absent, is no sequence, or holds an entry that is not
\* a string the pattern matches
BadSeedField(s) ==
    \/ s = Absent
    \/ s.kind # "list"
    \/ \E i \in 1..Len(s.val) :
        s.val[i].kind # "str" \/ ~Search(HTTP_PATTERN, s.val[i].val)

\* the count field is an integer in 1..200
ValidCount(t) == t.kind = "int" /\ 0 < t.val /\ t.val <= 200

\* C6: validate_config fails with IncorrectURLError, and with nothing else,
\* whenever the seed field is absent, is not a sequence, or holds an entry
\* that fails the pattern match (read here on the configurations whose
\* count field is valid, so that only the seed field is at fault).
C6_UrlError ==
    (pc = "returned" /\ BadSeedField(config.seed_urls)
                     /\ ValidCount(config.total_articles_to_find_and_parse))
        => ret.exc = "IncorrectURLError"

\* the identifiers persisted so far
Persisted == {saved[i].article.article_id :
                 i \in {j \in 1..Len(saved) : saved[j].written}}

\* requests issued for article pages
ArticleFetches == http_requests - Len(responses)

\* C7: the i-th record handed to save_raw has identifier i and the URL
\* urls[i]; the persisted identifiers are 1..j for a j <= len(urls); a run
\* that ends in the article loop with an exception has persisted exactly the
\* articles before the failing one and fetched none after it; Done is
\* reached only with every article persisted.
C7_SequentialArticles ==
    /\ \A i \in 1..Len(saved) :
        /\ saved[i].article.article_id = i
        /\ saved[i].article.url = urls[i]
        /\ i < Len(saved) => saved[i].written
    /\ Len(saved) <= Len(urls)
    /\ \E j \in 0..Len(urls) : Persisted = 1..j
    /\ (pc = "aborted" /\ FindArticlesFinished) =>
        /\ Persisted = 1..id_of_article
        /\ ArticleFetches = id_of_article + 1
    /\ pc \in {"articles", "done"} =>
        /\ Persisted = 1..id_of_article
        /\ ArticleFetches = id_of_article
    /\ pc = "done" => Persisted = 1..Len(urls)

\* parsing the second of three articles failed: one persisted, none after
C7_Witness ==
    /\ pc = "aborted"
    /\ error = "ValueError"
    /\ Len(urls) = 3
    /\ Len(saved) = 1
    /\ Persisted = {1}
    /\ ArticleFetches = 2

\* C8: a seed whose response is not ok leaves urls unchanged, raises
\* nothing and moves on to the next seed; every seed is requested once, in
\* order, and all of them are when find_articles returns.
C8_FailedSeedSkipped ==
    /\ [][(pc = "find_articles" /\ Len(responses') = Len(responses) + 1
              /\ responses'[Len(responses')].status = "not_ok")
          => (/\ urls' = urls
              /\ error' = "none"
              /\ pc' = "find_articles"
              /\ seed_idx' = seed_idx + 1
              /\ http_requests' = http_requests + 1)]_vars
    /\ [](/\ Len(responses) <= Len(seed_urls)
          /\ \A i \in 1..Len(responses) : responses[i].url = seed_urls[i]
          /\ (pc \in {"articles", "save_raw", "done"})
                => Len(responses) = Len(seed_urls))

\* a failed first seed (whose page held link cells) and a second seed that
\* contributed links
C8_Witness ==
    /\ pc = "articles"
    /\ Len(responses) = 2
    /\ responses[1].status = "not_ok"
    /\ PageLinks(responses[1].cells) # <<>>
    /\ responses[2].status = "ok"
    /\ urls = PageLinks(responses[2].cells)
    /\ Len(urls) = 2

\* the positions of t at which the marker starts
MarkerAt(t) == {i \in 1..Len(t) - 1 : t[i] = "L" /\ t[i + 1] = "\n"}

\* position p of region r starts a line that begins with k digits and "."
NumberedLine(r, p, k) ==
    /\ p = 1 \/ r[p - 1] = "\n"
    /\ p + k <= Len(r)
    /\ \A j \in 0..(k - 1) : r[p + j] \in Digits
    /\ r[p + k] = "."

\* the numbers that prefix the numbered lines of r, with their positions
Numbered(r) ==
    {<<p, ToInt(SubSeq(r, p, p + k - 1))>> :
        <<p, k>> \in {x \in (1..Len(r)) \X {1, 2} : NumberedLine(r, x[1], x[2])}}

Greatest(r) ==
    IF Numbered(r) = {} THEN 0
    ELSE CHOOSE n \in {x[2] : x \in Numbered(r)} :
             \A x \in Numbered(r) : x[2] <= n

Latest(r) ==
    IF Numbered(r) = {} THEN 0
    ELSE (CHOOSE x \in Numbered(r) : \A y \in Numbered(r) : y[1] <= x[1])[2]

FirstMarker(t) == CHOOSE i \in MarkerAt(t) : \A j \in MarkerAt(t) : i <= j

\* everything after the first occurrence of the marker
AfterFirstMarker(t) == SubSeq(t, FirstMarker(t) + 2, Len(t))

\* what lies between the first occurrence of the marker and the next one
\* (the end of the text when there is no next one)
UpToNextMarker(r) ==
    IF MarkerAt(r) = {} THEN r ELSE SubSeq(r, 1, FirstMarker(r) - 1)

\* C9 as stated: with the marker, the body is what precedes its first
\* occurrence and the count is the greatest number prefixing a numbered
\* line of everything after it; without it, the body is the whole text and
\* the count 0 (read here on the texts that hold the marker at most once).
C9_AsStated ==
    (pc = "returned" /\ Cardinality(MarkerAt(arg)) <= 1) =>
        IF MarkerAt(arg) # {}
        THEN /\ ret.text = SubSeq(arg, 1, FirstMarker(arg) - 1)
             /\ ret.sources = Greatest(AfterFirstMarker(arg))
        ELSE ret.text = arg /\ ret.sources = 0

\* C9 amended: with the marker, the body is what precedes its first
\* occurrence, the scan region is what lies between the first occurrence
\* and the next one (the end of the text if there is none), and the count is
\* the number prefixing the last numbered line of that region (0 if none);
\* without it, the body is the whole text and the count 0.
C9_LastNumberedLine ==
    pc = "returned" =>
        IF MarkerAt(arg) # {}
        THEN /\ ret.text = SubSeq(arg, 1, FirstMarker(arg) - 1)
             /\ ret.sources = Latest(UpToNextMarker(AfterFirstMarker(arg)))
        ELSE ret.text = arg /\ ret.sources = 0

\* a bibliography numbered 2 then 1: the count reported is 1
C9_Witness ==
    /\ pc = "returned"
    /\ arg = <<"L", "\n", "2", ".", "\n", "1", ".">>
    /\ ret.sources = 1
    /\ ret.text = <<>>

\* "<start>-<end>" with both components decimal numbers
StartEnd(s) ==
    \E i \in 2..(Len(s) - 1) :
        /\ s[i] = "-"
        /\ IsNumeric(SubSeq(s, 1, i - 1))
        /\ IsNumeric(SubSeq(s, i + 1, Len(s)))

\* C10: "<start>-<end>" yields end - start + 1, and a string that does not
\* hold exactly one hyphen, or holds a component that is no number, fails.
C10_PageCount ==
    pc = "returned" =>
        /\ StartEnd(arg) =>
            /\ ret.exc = "none"
            /\ \E i \in 1..Len(arg) :
                /\ arg[i] = "-"
                /\ ret.pages = ToInt(SubSeq(arg, i + 1, Len(arg)))
                                  - ToInt(SubSeq(arg, 1, i - 1)) + 1
        /\ ~StartEnd(arg) => ret.exc # "none"

====
